---- MODULE Spec2Model ----
(***************************************************************************)
(* A model of the worker-thread pool of paradise2017/ThreadPool.            *)
(*                                                                         *)
(* The repository holds two variants of one design:                        *)
(*   "classic"  src/ThreadPool/threadpool.cpp + threadpool.h               *)
(*              (Task base class, Result handle built on a Semaphore)      *)
(*   "cpp11"    src/ThreadPool_C++11/threadpool.h                          *)
(*              (packaged_task + std::future)                              *)
(* The variable `variant` is chosen in Init and selects the few places     *)
(* where the two differ (the rejected handle, the extra notEmpty_ notify   *)
(* after a dequeue).                                                       *)
(*                                                                         *)
(* Everything a thread does while it holds taskQueMtx_ without waiting is  *)
(* one action: the mutex makes it atomic.  A wait on a condition variable  *)
(* releases the mutex and ends the action; the code after the wait is a    *)
(* separate action.  The atomics written outside the mutex                 *)
(* (isPoolRunning_ in the destructor, idleThreadSize_ after a task) are    *)
(* steps of their own.                                                     *)
(*                                                                         *)
(* Usage protocol of the user threads: configuration setters, then         *)
(* start(n) once, then submitTask calls (concurrent, each with a fresh     *)
(* task object), then the destructor once no submitTask call is still in   *)
(* progress.  One consumer thread calls Result::get on returned handles, in  *)
(* any order and at any time.                                              *)
(*                                                                         *)
(* Spec is the pool under that protocol; FairSpec adds a fair scheduler.   *)
(* Four more specifications widen what the environment may do: GetSpec     *)
(* (get() called again on a handle already read), ThrowSpec (a task body   *)
(* that raises), IdSpec (Thread objects constructed outside the pool,      *)
(* taking ids from the static counter before the pool starts) and          *)
(* ReuseSpec (a task object passed to submitTask a second time).           *)
(***************************************************************************)
EXTENDS Integers, Sequences, FiniteSets, TLC

(* ------------------------------ bounds -------------------------------- *)
\* number of submitTask calls (one fresh task object and one handle each)
MaxSubmits == 3
\* start(n) is called with n in 0..MaxInit
MaxInit == 2
\* setTaskQueMaxThreshHold(n) is called with n in 1..MaxQueDepth
MaxQueDepth == 1
\* setThreadSizeThreshHold(n) is called with n in 1..MaxThreshold
MaxThreshold == 1
\* Thread objects constructed outside this pool (by another pool instance)
\* before it starts, each taking an id from the shared counter
MaxConsumed == 1

(* ------------------------- program constants -------------------------- *)
TASK_MAX_THRESHHOLD == 2147483647
THREAD_MAX_THRESHHOLD == 1024
THREAD_MAX_IDLE_TIME == 60

MODE_FIXED == "MODE_FIXED"
MODE_CACHED == "MODE_CACHED"
PoolMode == {MODE_FIXED, MODE_CACHED}

Variants == {"classic", "cpp11"}

\* handles (Result objects / futures); submit call h passes task object h
Handles == 1..MaxSubmits
\* "no task" / nullptr
NoTask == 0
\* every Thread object ever constructed: at most MaxInit by start, one per
\* submitTask call, and those constructed outside this pool
NumThreads == MaxInit + MaxSubmits + MaxConsumed
ThreadIds == 0..(NumThreads - 1)

VARIABLES
    variant,               \* which source variant is running
    \* ---- ThreadPool members
    poolMode_,
    taskQueMaxThreshHold_,
    threadSizeThreshHold_,
    initThreadSize_,
    isPoolRunning_,
    threads_,              \* key set of the registry map
    curThreadSize_,
    idleThreadSize_,
    taskQue_,
    taskSize_,
    generateId_,           \* Thread::generateId_ (static)
    \* ---- worker threads
    pc,                    \* position of each worker thread
    curTask,               \* the local `task` of threadFunc
    idleFor,               \* now - lastTime, abstracted to {0, THREAD_MAX_IDLE_TIME}
    notEmptyWoken,         \* workers notified on notEmpty_ and not yet running again
    \* ---- user threads
    phase,                 \* the thread that owns the pool object
    startIdx,              \* loop index i of start()'s second loop
    exitWoken,             \* the destructor was notified on exitCond_
    sub,                   \* position of each submitTask call
    notFullWoken,          \* submitTask calls notified on notFull_
    \* ---- Task / Result
    result_,               \* Task::result_ of each task object
    isValid_,              \* Result::isValid_
    resLimit_,             \* Result::sem_.resLimit_ (cpp11: the future is ready)
    any_,                  \* Result::any_ (cpp11: the shared state's value)
    getPc,                 \* position of the get() call on each handle
    getVal,                \* what get() returned
    \* ---- history (observation only)
    enqLog,                \* the submitTask calls in the order their items were
                           \* enqueued (call h passes task object h, unless it
                           \* passes an earlier call's object again)
    deqLog,                \* tasks in the order they were dequeued
    execCount,             \* how often each task's body was executed
    pubCount,              \* how often each handle was published (setVal)
    inFlightAtStop,        \* tasks held by a worker when the destructor began
    queuedAtStop           \* tasks in the queue when the destructor began

cfgVars == <<variant, poolMode_, taskQueMaxThreshHold_, threadSizeThreshHold_,
             initThreadSize_>>
poolVars == <<isPoolRunning_, threads_, curThreadSize_, idleThreadSize_,
              taskQue_, taskSize_, generateId_>>
workerVars == <<pc, curTask, idleFor, notEmptyWoken>>
userVars == <<phase, startIdx, exitWoken, sub, notFullWoken>>
resultVars == <<result_, isValid_, resLimit_, any_, getPc, getVal>>
histVars == <<enqLog, deqLog, execCount, pubCount, inFlightAtStop, queuedAtStop>>
vars == <<cfgVars, poolVars, workerVars, userVars, resultVars, histVars>>

(* --------------------------- pure helpers ----------------------------- *)
Range(s) == {s[i] : i \in 1..Len(s)}

\* std::queue::emplace
QueEmplace(q, t) == Append(q, t)
\* mutant of QueFront: the newest item is taken (LIFO)
QueFront_Back(q) == q[Len(q)]

\* std::queue::front
QueFront(q) == Head(q)
\* mutant of QuePop: the front item is read but not removed
QuePop_Keep(q) == q

\* std::queue::pop
QuePop(q) == Tail(q)

\* mutant of NotFullPred: off by one, <= for <
NotFullPred_OffByOne == Len(taskQue_) <= taskQueMaxThreshHold_

\* the predicate of notFull_.wait_for in submitTask
NotFullPred == Len(taskQue_) < taskQueMaxThreshHold_

\* workers blocked in notEmpty_.wait / notEmpty_.wait_for
NotEmptyWaiters == {w \in ThreadIds : pc[w] \in {"wait", "timedwait"}}
\* submitTask calls blocked in notFull_.wait_for
NotFullWaiters == {h \in Handles : sub[h] = "blocked"}

ShutdownBegun == phase \in {"dtor", "dtorwait", "destroyed"}

(* ------------------------------- Init --------------------------------- *)
Init ==
    /\ variant \in Variants
    /\ poolMode_ = MODE_FIXED
    /\ taskQueMaxThreshHold_ = TASK_MAX_THRESHHOLD
    /\ threadSizeThreshHold_ = THREAD_MAX_THRESHHOLD
    /\ initThreadSize_ = 0
    /\ isPoolRunning_ = FALSE
    /\ threads_ = {}
    /\ curThreadSize_ = 0
    /\ idleThreadSize_ = 0
    /\ taskQue_ = << >>
    /\ taskSize_ = 0
    /\ generateId_ = 0
    /\ pc = [w \in ThreadIds |-> "unborn"]
    /\ curTask = [w \in ThreadIds |-> NoTask]
    /\ idleFor = [w \in ThreadIds |-> 0]
    /\ notEmptyWoken = {}
    /\ phase = "created"
    /\ startIdx = 0
    /\ exitWoken = FALSE
    /\ sub = [h \in Handles |-> "idle"]
    /\ notFullWoken = {}
    /\ result_ = [h \in Handles |-> NoTask]
    /\ isValid_ = [h \in Handles |-> TRUE]
    /\ resLimit_ = [h \in Handles |-> 0]
    /\ any_ = [h \in Handles |-> "empty"]
    /\ getPc = [h \in Handles |-> "none"]
    /\ getVal = [h \in Handles |-> "none"]
    /\ enqLog = << >>
    /\ deqLog = << >>
    /\ execCount = [h \in Handles |-> 0]
    /\ pubCount = [h \in Handles |-> 0]
    /\ inFlightAtStop = {}
    /\ queuedAtStop = {}

(* -------------------------- configuration ----------------------------- *)
\* mutant of checkRunningState: the setters do not see that the pool runs
checkRunningState_Never == FALSE

checkRunningState == isPoolRunning_

setMode(mode) ==
    /\ phase \in {"created", "running"}
    /\ poolMode_' = IF checkRunningState THEN poolMode_ ELSE mode
    /\ UNCHANGED <<variant, taskQueMaxThreshHold_, threadSizeThreshHold_,
                   initThreadSize_, poolVars, workerVars, userVars,
                   resultVars, histVars>>

setTaskQueMaxThreshHold(threshhold) ==
    /\ phase \in {"created", "running"}
    /\ taskQueMaxThreshHold_' =
           IF checkRunningState THEN taskQueMaxThreshHold_ ELSE threshhold
    /\ UNCHANGED <<variant, poolMode_, threadSizeThreshHold_,
                   initThreadSize_, poolVars, workerVars, userVars,
                   resultVars, histVars>>

setThreadSizeThreshHold(threshhold) ==
    /\ phase \in {"created", "running"}
    /\ threadSizeThreshHold_' =
           IF checkRunningState THEN threadSizeThreshHold_
           ELSE IF poolMode_ = MODE_CACHED THEN threshhold
           ELSE threadSizeThreshHold_
    /\ UNCHANGED <<variant, poolMode_, taskQueMaxThreshHold_,
                   initThreadSize_, poolVars, workerVars, userVars,
                   resultVars, histVars>>

(* ------------------------------ start --------------------------------- *)
\* the ids the first loop of start() hands out
NewIds(n) == {i \in ThreadIds : generateId_ <= i /\ i < generateId_ + n}

\* start(): the flag, the sizes and the first loop (Thread objects are
\* constructed and registered; no thread runs yet)
start(initThreadSize) ==
    /\ phase = "created"
    /\ isPoolRunning_' = TRUE
    /\ initThreadSize_' = initThreadSize
    /\ curThreadSize_' = initThreadSize
    /\ threads_' = threads_ \cup NewIds(initThreadSize)
    /\ generateId_' = generateId_ + initThreadSize
    /\ pc' = [w \in ThreadIds |->
                 IF w \in NewIds(initThreadSize) THEN "created" ELSE pc[w]]
    /\ startIdx' = 0
    /\ phase' = IF initThreadSize = 0 THEN "running" ELSE "starting"
    /\ UNCHANGED <<variant, poolMode_, taskQueMaxThreshHold_,
                   threadSizeThreshHold_, idleThreadSize_, taskQue_, taskSize_,
                   curTask, idleFor, notEmptyWoken, exitWoken, sub,
                   notFullWoken, resultVars, histVars>>

\* one iteration of start()'s second loop: threads_[i]->start(); idle++.
\* threads_[i] on a key that is not registered yields a null unique_ptr,
\* and calling start() through it is undefined: the process is lost.
startThread ==
    /\ phase = "starting"
    /\ startIdx < initThreadSize_
    /\ IF startIdx \in threads_ /\ pc[startIdx] = "created"
       THEN /\ pc' = [pc EXCEPT ![startIdx] = "lock"]
            /\ idleFor' = [idleFor EXCEPT ![startIdx] = 0]
            /\ idleThreadSize_' = idleThreadSize_ + 1
            /\ startIdx' = startIdx + 1
            /\ phase' = IF startIdx + 1 = initThreadSize_
                        THEN "running" ELSE "starting"
       ELSE /\ phase' = "crashed"
            /\ UNCHANGED <<pc, idleFor, idleThreadSize_, startIdx>>
    /\ UNCHANGED <<cfgVars, isPoolRunning_, threads_, curThreadSize_,
                   taskQue_, taskSize_, generateId_, curTask, notEmptyWoken,
                   exitWoken, sub, notFullWoken, resultVars, histVars>>

\* Thread::Thread run outside this pool before it starts (another pool
\* instance constructs a worker): generateId_ is static, so the id is
\* taken from the counter this pool draws from
OtherThread ==
    /\ phase = "created"
    /\ generateId_ < MaxConsumed
    /\ generateId_' = generateId_ + 1
    /\ UNCHANGED <<cfgVars, isPoolRunning_, threads_, curThreadSize_,
                   idleThreadSize_, taskQue_, taskSize_, workerVars,
                   userVars, resultVars, histVars>>

(* ------------------------- worker: threadFunc ------------------------- *)
\* what no step of threadFunc inside the mutex touches
WorkerFrame ==
    UNCHANGED <<cfgVars, isPoolRunning_, generateId_, phase, startIdx, sub,
                resultVars, enqLog, execCount, pubCount, inFlightAtStop,
                queuedAtStop>>

\* notEmpty_ after a dequeue by worker w: the cpp11 variant notifies the
\* other workers when items remain, the classic variant does not
DequeueNotEmpty(w, rest) ==
    IF variant = "cpp11" /\ Len(rest) > 0
    THEN (notEmptyWoken \cup NotEmptyWaiters) \ {w}
    ELSE notEmptyWoken \ {w}

\* the pool is stopping and the queue is empty: deregister, signal
\* exitCond_, return
ShutdownExit(w) ==
    /\ threads_' = threads_ \ {w}
    /\ exitWoken' = (exitWoken \/ phase = "dtorwait")
    /\ pc' = [pc EXCEPT ![w] = "exited"]
    /\ notEmptyWoken' = notEmptyWoken \ {w}
    /\ UNCHANGED <<curThreadSize_, idleThreadSize_, taskQue_, taskSize_,
                   curTask, notFullWoken, deqLog>>

\* mutant of ReclaimExit: the reclaimed worker is not taken off the idle
\* count
ReclaimExit_KeepsIdle(w) ==
    /\ threads_' = threads_ \ {w}
    /\ curThreadSize_' = curThreadSize_ - 1
    /\ pc' = [pc EXCEPT ![w] = "reclaimed"]
    /\ notEmptyWoken' = notEmptyWoken \ {w}
    /\ UNCHANGED <<idleThreadSize_, taskQue_, taskSize_, curTask,
                   notFullWoken, exitWoken, deqLog>>

\* Cached mode, idle for THREAD_MAX_IDLE_TIME and above the initial size:
\* deregister, decrement both counts, return (exitCond_ is not signalled)
ReclaimExit(w) ==
    /\ threads_' = threads_ \ {w}
    /\ curThreadSize_' = curThreadSize_ - 1
    /\ idleThreadSize_' = idleThreadSize_ - 1
    /\ pc' = [pc EXCEPT ![w] = "reclaimed"]
    /\ notEmptyWoken' = notEmptyWoken \ {w}
    /\ UNCHANGED <<taskQue_, taskSize_, curTask, notFullWoken, exitWoken,
                   deqLog>>

\* the queue is empty and the pool is running: wait on notEmpty_
\* (wait_for one second in Cached mode, wait in Fixed mode)
WaitNotEmpty(w) ==
    /\ pc' = [pc EXCEPT ![w] = IF poolMode_ = MODE_CACHED
                                THEN "timedwait" ELSE "wait"]
    /\ notEmptyWoken' = notEmptyWoken \ {w}
    /\ UNCHANGED <<threads_, curThreadSize_, idleThreadSize_, taskQue_,
                   taskSize_, curTask, notFullWoken, exitWoken, deqLog>>

\* the queue is not empty: idle--, take the front item, notify notFull_
TakeTask(w) ==
    /\ idleThreadSize_' = idleThreadSize_ - 1
    /\ curTask' = [curTask EXCEPT ![w] = QueFront(taskQue_)]
    /\ taskQue_' = QuePop(taskQue_)
    /\ taskSize_' = taskSize_ - 1
    /\ deqLog' = Append(deqLog, QueFront(taskQue_))
    /\ notFullWoken' = notFullWoken \cup NotFullWaiters
    /\ notEmptyWoken' = DequeueNotEmpty(w, QuePop(taskQue_))
    /\ pc' = [pc EXCEPT ![w] = "exec"]
    /\ UNCHANGED <<threads_, curThreadSize_, exitWoken>>

\* mutant of LoopCheck: the stop flag is tested before the queue, so a
\* stopping pool leaves queued items behind
LoopCheck_StopFirst(w) ==
    IF ~isPoolRunning_ THEN ShutdownExit(w)
    ELSE IF Len(taskQue_) = 0 THEN WaitNotEmpty(w) ELSE TakeTask(w)

\* one evaluation of `while (taskQue_.size() == 0)` and what follows it,
\* under the mutex, up to the next wait or the end of the locked block
LoopCheck(w) ==
    IF Len(taskQue_) = 0
    THEN IF ~isPoolRunning_ THEN ShutdownExit(w) ELSE WaitNotEmpty(w)
    ELSE TakeTask(w)

\* the worker acquires taskQueMtx_ at the top of `while (true)`
WorkerLock(w) ==
    /\ phase # "crashed"
    /\ pc[w] = "lock"
    /\ LoopCheck(w)
    /\ UNCHANGED idleFor
    /\ WorkerFrame

\* notEmpty_.wait / wait_for returns after a notify_all (no_timeout)
WorkerWake(w) ==
    /\ phase # "crashed"
    /\ pc[w] \in {"wait", "timedwait"}
    /\ w \in notEmptyWoken
    /\ LoopCheck(w)
    /\ UNCHANGED idleFor
    /\ WorkerFrame

\* a spurious wakeup of notEmpty_.wait / wait_for (no_timeout)
WorkerSpurious(w) ==
    /\ phase # "crashed"
    /\ pc[w] \in {"wait", "timedwait"}
    /\ w \notin notEmptyWoken
    /\ LoopCheck(w)
    /\ UNCHANGED idleFor
    /\ WorkerFrame

\* mutant of ReclaimDue: the count is not compared with the initial size
ReclaimDue_NoFloor(d) == d >= THREAD_MAX_IDLE_TIME

\* mutant of ReclaimDue: the count is compared with the thread limit
\* instead of the initial size
ReclaimDue_WrongBound(d) ==
    d >= THREAD_MAX_IDLE_TIME /\ curThreadSize_ > threadSizeThreshHold_

\* the idle-reclamation test after a timed-out wait_for
ReclaimDue(d) == d >= THREAD_MAX_IDLE_TIME /\ curThreadSize_ > initThreadSize_

\* Cached mode: wait_for returns cv_status::timeout (whether or not a
\* notify came in the meantime); d is the idle time read from the clock,
\* which may have stayed below the threshold or reached it
WorkerTimeout(w) ==
    /\ phase # "crashed"
    /\ pc[w] = "timedwait"
    /\ \E d \in {idleFor[w], THREAD_MAX_IDLE_TIME} :
          /\ idleFor' = [idleFor EXCEPT ![w] = d]
          /\ IF ReclaimDue(d) THEN ReclaimExit(w) ELSE LoopCheck(w)
    /\ WorkerFrame

\* Result::setVal / the packaged_task making its future ready
setVal(h) ==
    /\ any_' = [any_ EXCEPT ![h] = "value"]
    /\ resLimit_' = [resLimit_ EXCEPT ![h] = @ + 1]
    /\ pubCount' = [pubCount EXCEPT ![h] = @ + 1]

\* Task::exec: when the task points to a Result, run() and publish into it
\* (cpp11: the packaged_task runs the bound function and readies its future)
Task_exec(t) ==
    IF result_[t] # NoTask
    THEN /\ execCount' = [execCount EXCEPT ![t] = @ + 1]
         /\ setVal(result_[t])
    ELSE UNCHANGED <<execCount, any_, resLimit_, pubCount>>

\* outside the mutex: the worker runs the item it holds
WorkerExec(w) ==
    /\ phase # "crashed"
    /\ pc[w] = "exec"
    /\ IF curTask[w] # NoTask
       THEN Task_exec(curTask[w])
       ELSE UNCHANGED <<execCount, any_, resLimit_, pubCount>>
    /\ pc' = [pc EXCEPT ![w] = "ran"]
    /\ curTask' = [curTask EXCEPT ![w] = NoTask]
    /\ UNCHANGED <<cfgVars, poolVars, idleFor, notEmptyWoken, userVars,
                   result_, isValid_, getPc, getVal, enqLog, deqLog,
                   inFlightAtStop, queuedAtStop>>

\* outside the mutex: the body of the item the worker holds raises.
\* classic: Task::exec calls run() with no handler and neither does
\* threadFunc; the exception leaves the thread function and
\* std::terminate ends the process.
\* cpp11: the packaged_task catches it and stores it in the shared state,
\* the future becomes ready and the worker goes on.
WorkerExecThrow(w) ==
    /\ phase # "crashed"
    /\ pc[w] = "exec"
    /\ curTask[w] # NoTask
    /\ result_[curTask[w]] # NoTask
    /\ execCount' = [execCount EXCEPT ![curTask[w]] = @ + 1]
    /\ IF variant = "classic"
       THEN /\ phase' = "crashed"
            /\ UNCHANGED <<pc, curTask, any_, resLimit_, pubCount>>
       ELSE /\ any_' = [any_ EXCEPT ![result_[curTask[w]]] = "exception"]
            /\ resLimit_' = [resLimit_ EXCEPT ![result_[curTask[w]]] = @ + 1]
            /\ pubCount' = [pubCount EXCEPT ![result_[curTask[w]]] = @ + 1]
            /\ pc' = [pc EXCEPT ![w] = "ran"]
            /\ curTask' = [curTask EXCEPT ![w] = NoTask]
            /\ UNCHANGED phase
    /\ UNCHANGED <<cfgVars, poolVars, idleFor, notEmptyWoken, startIdx,
                   exitWoken, sub, notFullWoken, result_, isValid_, getPc,
                   getVal, enqLog, deqLog, inFlightAtStop, queuedAtStop>>

\* outside the mutex: idleThreadSize_++ and lastTime = now
WorkerIdle(w) ==
    /\ phase # "crashed"
    /\ pc[w] = "ran"
    /\ idleThreadSize_' = idleThreadSize_ + 1
    /\ idleFor' = [idleFor EXCEPT ![w] = 0]
    /\ pc' = [pc EXCEPT ![w] = "lock"]
    /\ UNCHANGED <<cfgVars, isPoolRunning_, threads_, curThreadSize_,
                   taskQue_, taskSize_, generateId_, curTask, notEmptyWoken,
                   userVars, resultVars, histVars>>

(* ------------------------ submitTask (producer) ----------------------- *)
\* mutant of NeedNewThread: the thread limit is not tested
NeedNewThread_NoLimit(size) ==
    /\ poolMode_ = MODE_CACHED
    /\ size > idleThreadSize_

\* mutant of NeedNewThread: the mode is not tested, a Fixed pool grows too
NeedNewThread_AnyMode(size) ==
    /\ size > idleThreadSize_
    /\ curThreadSize_ < threadSizeThreshHold_

\* the Cached-mode growth test, evaluated after taskSize_++
NeedNewThread(size) ==
    /\ poolMode_ = MODE_CACHED
    /\ size > idleThreadSize_
    /\ curThreadSize_ < threadSizeThreshHold_

\* submitTask past the wait: enqueue, notify notEmpty_, grow by one worker
\* in Cached mode when the test says so, and build the valid handle.  The
\* handle is constructed before the mutex is released.
Accept(h) ==
    /\ taskQue_' = QueEmplace(taskQue_, h)
    /\ taskSize_' = taskSize_ + 1
    /\ enqLog' = Append(enqLog, h)
    /\ notEmptyWoken' = notEmptyWoken \cup NotEmptyWaiters
    /\ IF NeedNewThread(taskSize_ + 1)
       THEN /\ threads_' = threads_ \cup {generateId_}
            /\ pc' = [pc EXCEPT ![generateId_] = "lock"]
            /\ idleFor' = [idleFor EXCEPT ![generateId_] = 0]
            /\ generateId_' = generateId_ + 1
            /\ curThreadSize_' = curThreadSize_ + 1
            /\ idleThreadSize_' = idleThreadSize_ + 1
       ELSE UNCHANGED <<threads_, pc, idleFor, generateId_, curThreadSize_,
                        idleThreadSize_>>
    /\ result_' = [result_ EXCEPT ![h] = h]
    /\ isValid_' = [isValid_ EXCEPT ![h] = TRUE]
    /\ sub' = [sub EXCEPT ![h] = "valid"]
    /\ notFullWoken' = notFullWoken \ {h}
    /\ UNCHANGED <<resLimit_, any_>>

\* classic: return Result(sp, false)
RejectClassic(h) ==
    /\ result_' = [result_ EXCEPT ![h] = h]
    /\ isValid_' = [isValid_ EXCEPT ![h] = FALSE]
    /\ UNCHANGED <<resLimit_, any_>>

\* cpp11: a packaged_task returning RType() is run on the spot and its
\* future, already ready, is returned
RejectCpp11(h) ==
    /\ any_' = [any_ EXCEPT ![h] = "default"]
    /\ resLimit_' = [resLimit_ EXCEPT ![h] = 1]
    /\ UNCHANGED <<result_, isValid_>>

\* mutant of Reject: the pending count was incremented before the wait and
\* is not taken back on rejection
Reject_CountsTask(h) ==
    /\ IF variant = "classic" THEN RejectClassic(h) ELSE RejectCpp11(h)
    /\ sub' = [sub EXCEPT ![h] = "rejected"]
    /\ notFullWoken' = notFullWoken \ {h}
    /\ taskSize_' = taskSize_ + 1
    /\ UNCHANGED <<taskQue_, enqLog, notEmptyWoken, threads_, pc,
                   idleFor, generateId_, curThreadSize_, idleThreadSize_>>

\* submitTask when wait_for returned false: nothing is enqueued
Reject(h) ==
    /\ IF variant = "classic" THEN RejectClassic(h) ELSE RejectCpp11(h)
    /\ sub' = [sub EXCEPT ![h] = "rejected"]
    /\ notFullWoken' = notFullWoken \ {h}
    /\ UNCHANGED <<taskQue_, taskSize_, enqLog, notEmptyWoken, threads_, pc,
                   idleFor, generateId_, curThreadSize_, idleThreadSize_>>

\* what no step of submitTask touches
SubmitFrame ==
    UNCHANGED <<cfgVars, isPoolRunning_, curTask, phase, startIdx, exitWoken,
                getPc, getVal, deqLog, execCount, pubCount, inFlightAtStop,
                queuedAtStop>>

\* a submitTask call enters: lock, first evaluation of the predicate
submitTask(h) ==
    /\ phase = "running"
    /\ sub[h] = "idle"
    /\ \A g \in Handles : g < h => sub[g] # "idle"
    /\ IF NotFullPred
       THEN Accept(h)
       ELSE /\ sub' = [sub EXCEPT ![h] = "blocked"]
            /\ notFullWoken' = notFullWoken \ {h}
            /\ UNCHANGED <<taskQue_, taskSize_, enqLog, notEmptyWoken,
                           threads_, pc, idleFor, generateId_,
                           curThreadSize_, idleThreadSize_, result_,
                           isValid_, resLimit_, any_>>
    /\ SubmitFrame

\* a blocked call is notified on notFull_ before its second is over: the
\* predicate is evaluated again, and the call waits on if it is false
SubmitWake(h) ==
    /\ phase = "running"
    /\ sub[h] = "blocked"
    /\ h \in notFullWoken
    /\ IF NotFullPred
       THEN Accept(h)
       ELSE /\ notFullWoken' = notFullWoken \ {h}
            /\ UNCHANGED <<sub, taskQue_, taskSize_, enqLog, notEmptyWoken,
                           threads_, pc, idleFor, generateId_,
                           curThreadSize_, idleThreadSize_, result_,
                           isValid_, resLimit_, any_>>
    /\ SubmitFrame

\* mutant of SubmitTimeout: a timed-out wait is taken as a rejection without
\* evaluating the predicate again
SubmitTimeout_NoRecheck(h) ==
    /\ phase = "running"
    /\ sub[h] = "blocked"
    /\ Reject(h)
    /\ SubmitFrame

\* the one-second admission timeout fires: wait_for returns the predicate
SubmitTimeout(h) ==
    /\ phase = "running"
    /\ sub[h] = "blocked"
    /\ IF NotFullPred THEN Accept(h) ELSE Reject(h)
    /\ SubmitFrame

(* ------------- submitTask with a task object passed before ----------- *)
\* The classic variant takes a std::shared_ptr<Task>, so a caller can pass
\* the object of an earlier call again: here call h passes the task object
\* of call 1.  (The cpp11 variant builds a fresh packaged_task in every
\* call, which is what submitTask above models.)

\* submitTask past the wait with the task object of call 1: the object is
\* enqueued once more, and Result(sp) makes its result_ point to the new
\* handle
AcceptAgain(h) ==
    /\ taskQue_' = QueEmplace(taskQue_, 1)
    /\ taskSize_' = taskSize_ + 1
    /\ enqLog' = Append(enqLog, h)
    /\ notEmptyWoken' = notEmptyWoken \cup NotEmptyWaiters
    /\ IF NeedNewThread(taskSize_ + 1)
       THEN /\ threads_' = threads_ \cup {generateId_}
            /\ pc' = [pc EXCEPT ![generateId_] = "lock"]
            /\ idleFor' = [idleFor EXCEPT ![generateId_] = 0]
            /\ generateId_' = generateId_ + 1
            /\ curThreadSize_' = curThreadSize_ + 1
            /\ idleThreadSize_' = idleThreadSize_ + 1
       ELSE UNCHANGED <<threads_, pc, idleFor, generateId_, curThreadSize_,
                        idleThreadSize_>>
    /\ result_' = [result_ EXCEPT ![1] = h]
    /\ isValid_' = [isValid_ EXCEPT ![h] = TRUE]
    /\ sub' = [sub EXCEPT ![h] = "valid"]
    /\ UNCHANGED <<resLimit_, any_, notFullWoken>>

\* wait_for returned false: Result(sp, false) is built on the task object
\* of call 1, whose result_ now points to the invalid handle
RejectAgain(h) ==
    /\ result_' = [result_ EXCEPT ![1] = h]
    /\ isValid_' = [isValid_ EXCEPT ![h] = FALSE]
    /\ sub' = [sub EXCEPT ![h] = "rejected"]
    /\ UNCHANGED <<resLimit_, any_, notFullWoken, taskQue_, taskSize_,
                   enqLog, notEmptyWoken, threads_, pc, idleFor, generateId_,
                   curThreadSize_, idleThreadSize_>>

\* a submitTask call enters with the task object of call 1
submitTaskAgain(h) ==
    /\ variant = "classic"
    /\ phase = "running"
    /\ h > 1
    /\ sub[h] = "idle"
    /\ \A g \in Handles : g < h => sub[g] # "idle"
    /\ IF NotFullPred
       THEN AcceptAgain(h)
       ELSE /\ sub' = [sub EXCEPT ![h] = "blockedAgain"]
            /\ UNCHANGED <<taskQue_, taskSize_, enqLog, notEmptyWoken,
                           threads_, pc, idleFor, generateId_,
                           curThreadSize_, idleThreadSize_, result_,
                           isValid_, resLimit_, any_, notFullWoken>>
    /\ SubmitFrame

\* the wait_for of such a call ends, by a notify on notFull_ that finds the
\* predicate true or by the one-second timeout: it returns the predicate
SubmitAgainLeave(h) ==
    /\ phase = "running"
    /\ sub[h] = "blockedAgain"
    /\ IF NotFullPred THEN AcceptAgain(h) ELSE RejectAgain(h)
    /\ SubmitFrame

(* --------------------------- Result::get ------------------------------ *)
\* the value leaves the handle: sem_.wait() took the resource (classic),
\* any_ is moved out
TakeValue(h) ==
    /\ resLimit_' = [resLimit_ EXCEPT ![h] = @ - 1]
    /\ getVal' = [getVal EXCEPT ![h] = any_[h]]
    /\ any_' = [any_ EXCEPT ![h] = "moved"]
    /\ getPc' = [getPc EXCEPT ![h] = "returned"]

\* mutant of Result_get: isValid_ is not tested, every get() waits on sem_
Result_get_NoValidCheck(h) ==
    /\ getPc[h] = "none"
    /\ \A g \in Handles : getPc[g] # "blocked"
    /\ sub[h] \in {"valid", "rejected"}
    /\ IF resLimit_[h] > 0
       THEN TakeValue(h)
       ELSE /\ getPc' = [getPc EXCEPT ![h] = "blocked"]
            /\ UNCHANGED <<resLimit_, any_, getVal>>
    /\ UNCHANGED <<cfgVars, poolVars, workerVars, userVars, result_,
                   isValid_, histVars>>

\* Result::get (cpp11: future::get) is called on a returned handle; one
\* consumer thread reads the handles, in an order of its choice
Result_get(h) ==
    /\ getPc[h] = "none"
    /\ \A g \in Handles : getPc[g] # "blocked"
    /\ sub[h] \in {"valid", "rejected"}
    /\ IF ~isValid_[h]
       THEN /\ getVal' = [getVal EXCEPT ![h] = "default"]
            /\ getPc' = [getPc EXCEPT ![h] = "returned"]
            /\ UNCHANGED <<resLimit_, any_>>
       ELSE IF resLimit_[h] > 0
            THEN TakeValue(h)
            ELSE /\ getPc' = [getPc EXCEPT ![h] = "blocked"]
                 /\ UNCHANGED <<resLimit_, any_, getVal>>
    /\ UNCHANGED <<cfgVars, poolVars, workerVars, userVars, result_,
                   isValid_, histVars>>

\* a get() blocked in sem_.wait() is released by the post of setVal
GetWake(h) ==
    /\ getPc[h] = "blocked"
    /\ resLimit_[h] > 0
    /\ TakeValue(h)
    /\ UNCHANGED <<cfgVars, poolVars, workerVars, userVars, result_,
                   isValid_, histVars>>

\* a further get() on a handle whose earlier get() has returned.
\* classic: the same code again; sem_.wait() finds the resource taken by
\* the earlier call and waits (a handle is posted once).
\* cpp11: the earlier get() released the shared state, and get() on a
\* future that is not valid() is undefined: the library throws
\* future_error or dereferences the null state.
Result_getAgain(h) ==
    /\ getPc[h] \in {"returned", "returned2"}
    /\ IF variant = "classic"
       THEN /\ IF ~isValid_[h]
               THEN /\ getVal' = [getVal EXCEPT ![h] = "default"]
                    /\ getPc' = [getPc EXCEPT ![h] = "returned2"]
                    /\ UNCHANGED <<resLimit_, any_>>
               ELSE IF resLimit_[h] > 0
                    THEN /\ resLimit_' = [resLimit_ EXCEPT ![h] = @ - 1]
                         /\ getVal' = [getVal EXCEPT ![h] = any_[h]]
                         /\ any_' = [any_ EXCEPT ![h] = "moved"]
                         /\ getPc' = [getPc EXCEPT ![h] = "returned2"]
                    ELSE /\ getPc' = [getPc EXCEPT ![h] = "blocked2"]
                         /\ UNCHANGED <<resLimit_, any_, getVal>>
            /\ UNCHANGED phase
       ELSE /\ \E outcome \in {"threw", "crashed"} :
                  IF outcome = "threw"
                  THEN /\ getPc' = [getPc EXCEPT ![h] = "threw"]
                       /\ UNCHANGED phase
                  ELSE /\ phase' = "crashed"
                       /\ UNCHANGED getPc
            /\ UNCHANGED <<resLimit_, any_, getVal>>
    /\ UNCHANGED <<cfgVars, poolVars, workerVars, startIdx, exitWoken, sub,
                   notFullWoken, result_, isValid_, histVars>>

(* --------------------------- ~ThreadPool ------------------------------ *)
\* what no step of the destructor touches
DtorFrame ==
    UNCHANGED <<cfgVars, threads_, curThreadSize_, idleThreadSize_, taskQue_,
                taskSize_, generateId_, pc, curTask, idleFor, startIdx, sub,
                notFullWoken, resultVars, enqLog, deqLog, execCount,
                pubCount>>

\* mutant of AllExited: the destructor does not wait for the registry
AllExited_NoWait == TRUE

\* the predicate of exitCond_.wait
AllExited == Cardinality(threads_) = 0

\* isPoolRunning_ = false, before the mutex is taken
DtorBegin ==
    /\ phase \in {"created", "running"}
    /\ NotFullWaiters = {}
    /\ isPoolRunning_' = FALSE
    /\ phase' = "dtor"
    /\ inFlightAtStop' = {curTask[w] : w \in {x \in ThreadIds : pc[x] = "exec"}}
    /\ queuedAtStop' = Range(taskQue_)
    /\ UNCHANGED <<exitWoken, notEmptyWoken>>
    /\ DtorFrame

\* lock, notEmpty_.notify_all(), first evaluation of the exit predicate
DtorLock ==
    /\ phase = "dtor"
    /\ notEmptyWoken' = notEmptyWoken \cup NotEmptyWaiters
    /\ exitWoken' = FALSE
    /\ phase' = IF AllExited THEN "destroyed" ELSE "dtorwait"
    /\ UNCHANGED <<isPoolRunning_, inFlightAtStop, queuedAtStop>>
    /\ DtorFrame

\* exitCond_.wait returns after a notify_all: the predicate again
DtorWake ==
    /\ phase = "dtorwait"
    /\ exitWoken
    /\ exitWoken' = FALSE
    /\ phase' = IF AllExited THEN "destroyed" ELSE "dtorwait"
    /\ UNCHANGED <<isPoolRunning_, notEmptyWoken, inFlightAtStop, queuedAtStop>>
    /\ DtorFrame

\* a spurious wakeup of exitCond_.wait
DtorSpurious ==
    /\ phase = "dtorwait"
    /\ ~exitWoken
    /\ phase' = IF AllExited THEN "destroyed" ELSE "dtorwait"
    /\ UNCHANGED <<isPoolRunning_, exitWoken, notEmptyWoken, inFlightAtStop,
                   queuedAtStop>>
    /\ DtorFrame

(* ------------------------------- Next --------------------------------- *)
Next ==
    \/ \E m \in PoolMode : setMode(m)
    \/ \E n \in 1..MaxQueDepth : setTaskQueMaxThreshHold(n)
    \/ \E n \in 1..MaxThreshold : setThreadSizeThreshHold(n)
    \/ \E n \in 0..MaxInit : start(n)
    \/ startThread
    \/ \E w \in ThreadIds : WorkerLock(w)
    \/ \E w \in ThreadIds : WorkerWake(w)
    \/ \E w \in ThreadIds : WorkerSpurious(w)
    \/ \E w \in ThreadIds : WorkerTimeout(w)
    \/ \E w \in ThreadIds : WorkerExec(w)
    \/ \E w \in ThreadIds : WorkerIdle(w)
    \/ \E h \in Handles : submitTask(h)
    \/ \E h \in Handles : SubmitWake(h)
    \/ \E h \in Handles : SubmitTimeout(h)
    \/ \E h \in Handles : Result_get(h)
    \/ \E h \in Handles : GetWake(h)
    \/ DtorBegin
    \/ DtorLock
    \/ DtorWake
    \/ DtorSpurious

Spec == Init /\ [][Next]_vars

(* ----------------------- fair specification ------------------------- *)
\* submitTask calls in the fair specification (the first LiveSubmits handles)
LiveSubmits == 2

\* Next with only the first LiveSubmits submitTask calls ever issued
NextLive == Next /\ \A h \in Handles : h > LiveSubmits => sub'[h] = "idle"

\* What the scheduler, the clock and terminating task bodies guarantee: a
\* runnable thread runs, a mutex is eventually acquired, a notified waiter
\* wakes, a timed wait times out, a task body returns.  Nothing is assumed
\* of what the user threads choose to call, nor of spurious wakeups.
Fairness ==
    /\ WF_vars(startThread)
    /\ \A w \in ThreadIds :
          /\ WF_vars(WorkerLock(w))
          /\ WF_vars(WorkerWake(w))
          /\ WF_vars(WorkerTimeout(w))
          /\ WF_vars(WorkerExec(w))
          /\ WF_vars(WorkerIdle(w))
    /\ \A h \in Handles :
          /\ WF_vars(SubmitWake(h))
          /\ WF_vars(SubmitTimeout(h))
          /\ WF_vars(GetWake(h))
    /\ WF_vars(DtorLock)
    /\ WF_vars(DtorWake)

FairSpec == Init /\ [][NextLive]_vars /\ Fairness

(* ------------------- specification with repeated get ----------------- *)
\* the user threads may call get() again on a handle already read
NextGet ==
    \/ NextLive
    \/ \E h \in Handles : Result_getAgain(h)

GetSpec == Init /\ [][NextGet]_vars

(* ---------------- specification with failing task bodies ------------- *)
\* the body of a submitted item may raise instead of returning
NextThrow ==
    \/ NextLive
    \/ \E w \in ThreadIds : WorkerExecThrow(w)

ThrowSpec == Init /\ [][NextThrow]_vars

(* ------------- specification with a shared id counter in use --------- *)
\* Thread objects may have been constructed outside this pool
NextIds ==
    \/ NextLive
    \/ OtherThread

IdSpec == Init /\ [][NextIds]_vars

(* ------------- specification with task objects passed again ---------- *)
\* a caller may pass the task object of the first call again; the
\* destructor still begins only when no submitTask call is in progress
NextReuse ==
    \/ /\ NextLive
       /\ (phase # "dtor" /\ phase' = "dtor")
          => \A h \in Handles : sub[h] # "blockedAgain"
    \/ \E h \in 1..LiveSubmits : submitTaskAgain(h)
    \/ \E h \in 1..LiveSubmits : SubmitAgainLeave(h)

ReuseSpec == Init /\ [][NextReuse]_vars

(* ============================== claims =============================== *)
\* how often t occurs in the sequence s
Occ(s, t) == Cardinality({i \in 1..Len(s) : s[i] = t})
\* the workers holding task t in their local `task`
Holders(t) == {w \in ThreadIds : curTask[w] = t}
\* worker threads that were ever started
Started == {w \in ThreadIds : pc[w] \notin {"unborn", "created"}}

(* C1 -- Queue bound: in every reachable state the number of pending items
   (the queue's length and the counter taskSize_ kept beside it) is at
   least 0 and at most the configured limit taskQueMaxThreshHold_. *)
C1_QueueBound ==
    /\ 0 <= taskSize_
    /\ taskSize_ <= taskQueMaxThreshHold_
    /\ Len(taskQue_) <= taskQueMaxThreshHold_
    /\ taskSize_ = Len(taskQue_)

\* the queue stands at a configured limit after a worker has dequeued, with
\* a producer blocked on notFull_
C1_Witness ==
    /\ taskQueMaxThreshHold_ <= MaxQueDepth
    /\ Len(taskQue_) = taskQueMaxThreshHold_
    /\ Len(deqLog) > 0
    /\ Cardinality(NotFullWaiters) >= 1

(* C2 -- Backpressure rejection: a submitTask call that is blocked on a full
   queue and leaves its wait while the queue is still full (its admission
   timeout fired before a slot was freed) returns an invalid handle, and
   the step leaves the queue, the pending count, the registry,
   curThreadSize_ and idleThreadSize_ unchanged: nothing is enqueued and no
   worker is spawned, in either mode. *)
C2_BackpressureRejection ==
    [][\A h \in Handles :
          (sub[h] = "blocked" /\ sub'[h] # "blocked" /\ ~NotFullPred)
          => /\ sub'[h] = "rejected"
             /\ IF variant = "classic"
                THEN ~isValid_'[h]
                ELSE any_'[h] = "default" /\ resLimit_'[h] = 1
             /\ UNCHANGED <<taskQue_, taskSize_, enqLog, threads_,
                            curThreadSize_, idleThreadSize_, generateId_>>
             /\ h \notin Range(taskQue_')]_vars

\* a call was rejected in Cached mode while the queue stood at its limit
C2_Witness ==
    \E h \in Handles :
        /\ sub[h] = "rejected"
        /\ poolMode_ = MODE_CACHED
        /\ Len(taskQue_) = taskQueMaxThreshHold_

(* C3 -- get() on the handle of a rejected submit never blocks and returns
   the default/empty value, in every state of the pool, whether or not a
   worker ever ran or published anything. *)
C3_RejectedGetNeverBlocks ==
    \A h \in Handles :
        sub[h] = "rejected"
        => /\ getPc[h] # "blocked"
           /\ getPc[h] = "returned" => getVal[h] = "default"
           /\ pubCount[h] = 0

\* get() returned the default on a rejected handle in a pool that has no
\* worker and has published nothing
C3_Witness ==
    \E h \in Handles :
        /\ sub[h] = "rejected"
        /\ getPc[h] = "returned"
        /\ getVal[h] = "default"
        /\ Started = {}
        /\ \A g \in Handles : pubCount[g] = 0

(* C4 -- FIFO dequeue: items leave the queue in the order they entered it.
   The dequeue order is a prefix of the enqueue order and the queue holds
   the rest in order, so an item enqueued before another is dequeued
   before it. *)
C4_FifoDequeue ==
    /\ Len(deqLog) <= Len(enqLog)
    /\ \A i \in 1..Len(deqLog) : deqLog[i] = enqLog[i]
    /\ enqLog = deqLog \o taskQue_

\* two workers hold dequeued items at once while a third item is queued
C4_Witness ==
    /\ Len(deqLog) >= 2
    /\ Len(taskQue_) >= 1
    /\ Cardinality({w \in ThreadIds : pc[w] = "exec"}) >= 2

(* C5 -- Exactly-once dispatch and publish: every queue entry is dequeued by
   at most one worker and executed at most once, no entry is at once
   queued and held, and the handle of an executed item has been published
   exactly once. *)
C5_ExactlyOnce ==
    \A t \in Handles :
        /\ Occ(deqLog, t) <= 1
        /\ Cardinality(Holders(t)) <= 1
        /\ Occ(taskQue_, t) + Occ(deqLog, t) <= 1
        /\ execCount[t] <= 1
        /\ pubCount[t] <= 1
        /\ execCount[t] = 1 => (Occ(deqLog, t) = 1 /\ pubCount[t] = 1)
        /\ pubCount[t] = 1 => execCount[t] = 1

\* every submitted item was executed and published, by a pool in which at
\* least two workers ran
C5_Witness ==
    /\ \A t \in Handles : execCount[t] = 1 /\ pubCount[t] = 1
    /\ Cardinality(Started) >= 2

(* C6 -- Result delivery liveness: while the pool stays running with at
   least one worker (or in Cached mode with a thread limit of at least 1)
   and task bodies terminate, every accepted item is eventually dequeued,
   executed and published, and a get() blocked on its handle eventually
   returns.  Stated for the fair specification. *)
C6_WorkersAvailable ==
    \/ threads_ # {}
    \/ poolMode_ = MODE_CACHED /\ threadSizeThreshHold_ >= 1

C6_ResultDelivery ==
    /\ \A h \in Handles :
          (sub[h] = "valid" /\ ~ShutdownBegun /\ C6_WorkersAvailable)
          ~> (pubCount[h] = 1 \/ ShutdownBegun)
    /\ \A h \in Handles :
          (getPc[h] = "blocked" /\ ~ShutdownBegun /\ C6_WorkersAvailable)
          ~> (getPc[h] = "returned" \/ ShutdownBegun)

(* C7 -- Shutdown drains in-flight work: when the destructor has returned,
   every item a worker held (dequeued, not yet run) at the moment the
   destructor began has been executed and its handle published. *)
C7_InFlightDrained ==
    phase = "destroyed"
    => \A t \in inFlightAtStop : execCount[t] = 1 /\ pubCount[t] = 1

\* the destructor returned and a worker was holding an item when it began
C7_Witness ==
    /\ phase = "destroyed"
    /\ inFlightAtStop # {}

(* C8 (as claimed) -- Shutdown does not drain the queue: an item that is in
   the queue when shutdown begins stays in the queue for ever after and
   its handle is never published. *)
C8_QueueNotDrained ==
    \A t \in queuedAtStop : t \in Range(taskQue_) /\ pubCount[t] = 0

(* C8 (amended) -- Shutdown drains the queue through the remaining workers:
   a worker leaves by the shutdown path only when it finds the queue
   empty, so once any worker has left that way the queue is empty and
   every item that was queued when shutdown began has been dequeued; and
   when the destructor has returned after such an exit, each of those
   items has been executed and its handle published. *)
C8_ShutdownDrainsQueue ==
    (\E w \in ThreadIds : pc[w] = "exited")
    => /\ Len(taskQue_) = 0
       /\ \A t \in queuedAtStop : Occ(deqLog, t) = 1
       /\ phase = "destroyed"
          => \A t \in queuedAtStop : execCount[t] = 1 /\ pubCount[t] = 1

\* the destructor returned, items were queued when it began, and a worker
\* left by the shutdown path
C8_Witness ==
    /\ phase = "destroyed"
    /\ queuedAtStop # {}
    /\ \E w \in ThreadIds : pc[w] = "exited"

(* C9 -- Shutdown terminates: once the destructor has begun, in Fixed and in
   Cached mode, and with task bodies that terminate, the destructor
   eventually returns; and the step that empties the registry while the
   destructor waits signals exitCond_.  Stated for the fair
   specification. *)
C9_ShutdownTerminates ==
    /\ ShutdownBegun ~> phase = "destroyed"
    /\ [][(phase = "dtorwait" /\ threads_ # {} /\ threads_' = {})
          => exitWoken']_vars

(* C10 -- When the destructor has returned, curThreadSize_ is zero. *)
C10_CountZeroAfterShutdown ==
    phase = "destroyed" => curThreadSize_ = 0

(* C11 -- Fixed stability: in Fixed mode, from the return of start until the
   destructor begins, curThreadSize_ equals initThreadSize_ and the
   registry threads_ holds exactly initThreadSize_ workers, whatever was
   submitted, rejected or executed. *)
C11_FixedStability ==
    (poolMode_ = MODE_FIXED /\ phase = "running")
    => /\ curThreadSize_ = initThreadSize_
       /\ Cardinality(threads_) = initThreadSize_

\* a running Fixed pool of two workers under load: a call was rejected on
\* the full queue, an item was dequeued and another is pending
C11_Witness ==
    /\ poolMode_ = MODE_FIXED
    /\ phase = "running"
    /\ initThreadSize_ = 2
    /\ \E h \in Handles : sub[h] = "rejected"
    /\ Len(deqLog) >= 1
    /\ Len(taskQue_) >= 1

(* C12 -- Cached growth bound: in Cached mode curThreadSize_ never exceeds
   threadSizeThreshHold_, for every initial size passed to start and every
   thread limit configured before start. *)
C12_CachedGrowthBound ==
    poolMode_ = MODE_CACHED => curThreadSize_ <= threadSizeThreshHold_

(* C13 -- Growth rule: a submitTask call that is accepted adds exactly one
   worker (registry, curThreadSize_ and idleThreadSize_ each up by one) if
   and only if the mode is Cached, the pending count after the enqueue is
   greater than idleThreadSize_, and curThreadSize_ is below
   threadSizeThreshHold_; in every other case it adds none; a rejected or
   still blocked call adds none.  So no call adds more than one worker and
   the workers added by growth never outnumber the accepted calls. *)
C13_GrowthRule ==
    [][\A h \in Handles :
          (sub[h] # sub'[h])
          => LET accepted == sub'[h] = "valid"
                 grow == /\ accepted
                         /\ poolMode_ = MODE_CACHED
                         /\ taskSize_ + 1 > idleThreadSize_
                         /\ curThreadSize_ < threadSizeThreshHold_
             IN  /\ accepted => taskSize_' = taskSize_ + 1
                 /\ IF grow
                    THEN /\ Cardinality(threads_') = Cardinality(threads_) + 1
                         /\ threads_ \subseteq threads_'
                         /\ curThreadSize_' = curThreadSize_ + 1
                         /\ idleThreadSize_' = idleThreadSize_ + 1
                    ELSE UNCHANGED <<threads_, curThreadSize_,
                                     idleThreadSize_, generateId_>>
                 /\ generateId_' - initThreadSize_' <= Len(enqLog')]_vars

\* three calls were accepted by a Cached pool with the default limit and
\* one worker from start: one call grew the pool, another did not
C13_Witness ==
    /\ poolMode_ = MODE_CACHED
    /\ initThreadSize_ = 1
    /\ Len(enqLog) = 3
    /\ generateId_ - initThreadSize_ = 1
    /\ curThreadSize_ = 2

(* C14 -- Idle reclamation: in Cached mode while the pool is running, with
   curThreadSize_ above initThreadSize_, a worker that stays idle on the
   empty queue until its idle time has reached THREAD_MAX_IDLE_TIME
   eventually removes itself from the registry and exits; and the timeout
   at which its idle time reaches the threshold takes it out at once, with
   curThreadSize_ and idleThreadSize_ each going down by one.  Stated for
   the fair specification. *)
C14_Reclaimable ==
    /\ poolMode_ = MODE_CACHED
    /\ isPoolRunning_
    /\ Len(taskQue_) = 0
    /\ curThreadSize_ > initThreadSize_

C14_IdleReclamation ==
    /\ \A w \in ThreadIds :
          (pc[w] = "timedwait" /\ idleFor[w] = THREAD_MAX_IDLE_TIME
              /\ C14_Reclaimable)
          ~> (pc[w] = "reclaimed" \/ ~C14_Reclaimable)
    /\ [][\A w \in ThreadIds :
             (pc[w] = "timedwait" /\ idleFor[w] < THREAD_MAX_IDLE_TIME
                 /\ idleFor'[w] = THREAD_MAX_IDLE_TIME /\ C14_Reclaimable)
             => /\ pc'[w] = "reclaimed"
                /\ threads_' = threads_ \ {w}
                /\ w \in threads_
                /\ curThreadSize_' = curThreadSize_ - 1
                /\ idleThreadSize_' = idleThreadSize_ - 1]_vars

\* a worker added by growth ran an item, idled out and reclaimed itself;
\* the pool is running with its initial worker
C14_Witness ==
    /\ poolMode_ = MODE_CACHED
    /\ phase = "running"
    /\ initThreadSize_ = 1
    /\ curThreadSize_ = 1
    /\ Len(taskQue_) = 0
    /\ \E w \in ThreadIds : pc[w] = "reclaimed" /\ execCount[1] = 1

(* C15 -- Configuration after start is a no-op: once start has been called,
   no call of setMode, setTaskQueMaxThreshHold or setThreadSizeThreshHold
   (and no other step) changes the mode, the queue-depth limit or the
   thread limit; and before start the thread limit changes only when the
   mode is already Cached. *)
C15_ConfigFrozenAfterStart ==
    /\ [][(phase # "created" \/ isPoolRunning_)
          => UNCHANGED <<poolMode_, taskQueMaxThreshHold_,
                         threadSizeThreshHold_>>]_vars
    /\ [][threadSizeThreshHold_' # threadSizeThreshHold_
          => (phase = "created" /\ poolMode_ = MODE_CACHED
                 /\ poolMode_' = MODE_CACHED)]_vars

\* a running pool, where the setters can still be called, configured
\* before start: the thread limit was set while the mode was Cached, then
\* the mode was set back to Fixed
C15_Witness ==
    /\ phase = "running"
    /\ isPoolRunning_
    /\ poolMode_ = MODE_FIXED
    /\ threadSizeThreshHold_ = MaxThreshold
    /\ taskQueMaxThreshHold_ = MaxQueDepth

(* C16 -- Repeated reads do not re-block: once a handle has been published,
   every get() called on it returns without blocking, the second and every
   later call included: no call that begins on a published handle ends up
   waiting. *)
C16_RepeatedGetNeverBlocks ==
    [][\A h \in Handles :
          (pubCount[h] >= 1 /\ getPc'[h] # getPc[h])
          => getPc'[h] \notin {"blocked", "blocked2"}]_vars

(* C17 -- Task failure is contained: when the body of an item raises, the
   worker that ran it is not terminated: the step that ends the execution
   leaves the process alive and the worker in the registry, on its way to
   incrementing idleThreadSize_ and serving later items, with the queue
   and the pending count consistent. *)
C17_TaskFailureContained ==
    [][\A w \in ThreadIds :
          (pc[w] = "exec" /\ (pc'[w] # "exec" \/ phase' = "crashed"))
          => /\ phase' # "crashed"
             /\ pc'[w] = "ran"
             /\ w \in threads_'
             /\ taskSize_' = Len(taskQue_')]_vars

(* C18 -- start(n) on any pool instance, also when worker ids were already
   taken from the shared counter, goes through (the process is not lost),
   and when it has returned and nothing was submitted yet: the registry
   holds exactly the n fresh ids it handed out, each of these workers has
   been started, curThreadSize_ = idleThreadSize_ = n and the pool is
   running. *)
C18_StartRegistersAndStarts ==
    /\ phase # "crashed"
    /\ (phase = "running" /\ \A h \in Handles : sub[h] = "idle")
       => /\ isPoolRunning_
          /\ threads_ = {i \in ThreadIds : generateId_ - initThreadSize_ <= i
                                           /\ i < generateId_}
          /\ Cardinality(threads_) = initThreadSize_
          /\ threads_ \subseteq Started
          /\ Started \subseteq threads_
          /\ curThreadSize_ = initThreadSize_
          /\ idleThreadSize_ = initThreadSize_

(* C19 -- Reclamation floor: in Cached mode, while the pool is running, idle
   reclamation never brings curThreadSize_ (nor the registry) below
   initThreadSize_, also when several idle workers time out together: the
   test curThreadSize_ > initThreadSize_ and the decrement are one step
   under taskQueMtx_. *)
C19_ReclamationFloor ==
    (poolMode_ = MODE_CACHED /\ phase = "running")
    => /\ curThreadSize_ >= initThreadSize_
       /\ Cardinality(threads_) >= initThreadSize_

\* two workers idled out together in a running Cached pool started with
\* one: one was reclaimed, the other timed out at the floor and stays
C19_Witness ==
    /\ poolMode_ = MODE_CACHED
    /\ phase = "running"
    /\ initThreadSize_ = 1
    /\ curThreadSize_ = 1
    /\ \E w \in ThreadIds : pc[w] = "reclaimed"
    /\ \E w \in ThreadIds : /\ pc[w] = "timedwait"
                            /\ idleFor[w] = THREAD_MAX_IDLE_TIME

(* C20 -- No lost not-full wakeup: a submitTask call blocked on the full
   queue, once a worker has dequeued an item so that the queue has room,
   eventually enqueues its item and returns a valid handle, unless another
   producer fills the queue again first; and whenever a blocked call
   leaves its wait while the queue has room it is accepted (its item is
   appended, its handle is valid), never rejected.  Stated for the fair
   specification. *)
C20_NoLostNotFullWakeup ==
    /\ \A h \in Handles :
          (sub[h] = "blocked" /\ Len(taskQue_) < taskQueMaxThreshHold_)
          ~> (sub[h] = "valid" \/ Len(taskQue_) >= taskQueMaxThreshHold_)
    /\ [][\A h \in Handles :
             (sub[h] = "blocked" /\ sub'[h] # "blocked"
                 /\ Len(taskQue_) < taskQueMaxThreshHold_)
             => /\ sub'[h] = "valid"
                /\ taskQue_' = Append(taskQue_, h)
                /\ isValid_'[h]
                /\ result_'[h] = h]_vars

\* a call is blocked, a worker has dequeued the item that filled the queue
\* and notified notFull_, and the freed slot is still free
C20_Witness ==
    \E h \in Handles :
        /\ sub[h] = "blocked"
        /\ h \in notFullWoken
        /\ Len(deqLog) >= 1
        /\ Len(taskQue_) < taskQueMaxThreshHold_

(* C21 -- Handle pairing: the result of each accepted item is published to
   the handle returned by the submitTask call that enqueued it and to no
   other handle, also when a task object is passed to submitTask again
   before its first submission was executed.  So a handle is published at
   most once, only if its call was accepted and its own item has been
   dequeued; and once every enqueued item has been executed, every valid
   handle has been published. *)
C21_HandlePairing ==
    /\ \A h \in Handles :
          /\ pubCount[h] <= 1
          /\ pubCount[h] = 1
             => /\ sub[h] = "valid"
                /\ \E i \in 1..Len(deqLog) : enqLog[i] = h
    /\ (Len(taskQue_) = 0 /\ \A w \in ThreadIds : pc[w] # "exec")
       => \A h \in Handles : sub[h] = "valid" => pubCount[h] = 1

(* C22 -- Idle accounting: from the return of start until the destructor
   begins (no submitTask call is issued before start returns), in every
   state 0 <= idleThreadSize_ <= curThreadSize_, and idleThreadSize_ is
   the number of registered workers that are not between dequeuing an item
   and incrementing the idle count after running it. *)
C22_IdleAccounting ==
    phase = "running"
    => /\ 0 <= idleThreadSize_
       /\ idleThreadSize_ <= curThreadSize_
       /\ idleThreadSize_ =
              Cardinality({w \in threads_ : pc[w] \notin {"exec", "ran"}})

\* a running Cached pool of two workers after a third was reclaimed: one
\* holds an item or has run it without counting itself idle yet, the
\* other is idle
C22_Witness ==
    /\ phase = "running"
    /\ poolMode_ = MODE_CACHED
    /\ \E w \in ThreadIds : pc[w] = "reclaimed"
    /\ \E w \in threads_ : pc[w] \in {"exec", "ran"}
    /\ curThreadSize_ = 2
    /\ idleThreadSize_ = 1

====
